---- MODULE Spec2Model ----
(***************************************************************************)
(* voidconf: typed configuration entries resolved from a source (prefixed  *)
(* environment variables) with default fallback and typed parsing.         *)
(*                                                                         *)
(* Text is modelled as a sequence of one-character strings, so that the    *)
(* conversions of the library (to_ascii_uppercase, FromStr for the integer *)
(* types, to_string) are computed character by character.                  *)
(***************************************************************************)
EXTENDS Integers, Sequences, FiniteSets, TLC

VARIABLES
    conf,        \* the registry: Conf { name, source, options }
    env,         \* the process environment: variable name -> OsString
    last,        \* the most recent call and what it returned
    registered,  \* history: name -> the entry of the latest builder call on it
    tpc,         \* test suite: each test's position
    tval,        \* test suite: the value each test read last
    failed,      \* test suite: the tests whose assertion or unwrap panicked
    overlapped   \* test suite, history: a test started while another ran

vars == <<conf, env, last, registered, tpc, tval, failed, overlapped>>

regvars == <<conf, last, registered>>

testvars == <<tpc, tval, failed, overlapped>>

(***************************************************************************)
(* Option<T> and Result<T, ConfError>, all of one record shape.            *)
(***************************************************************************)
NoText == <<>>

None == [some |-> FALSE, val |-> NoText]

Some(v) == [some |-> TRUE, val |-> v]

\* A typed value V: the text of a String, or the sign and canonical decimal
\* magnitude of an integer (64-bit values do not fit the checker's integers).
NoValue == [ty |-> "none", neg |-> FALSE, body |-> NoText]

StrValue(s) == [ty |-> "String", neg |-> FALSE, body |-> s]

IntValue(ty, neg, mag) == [ty |-> ty, neg |-> neg, body |-> mag]

\* Result<Option<V>>, Result<V> and Result<Option<String>>: kind is OkSome,
\* OkNone, Ok, or one of the four ConfError variants (err.rs).
OkSome(v) == [kind |-> "OkSome", key |-> NoText, val |-> NoText, value |-> v]

OkNone == [kind |-> "OkNone", key |-> NoText, val |-> NoText, value |-> NoValue]

Ok(v) == [kind |-> "Ok", key |-> NoText, val |-> NoText, value |-> v]

key_not_found(key) == [kind |-> "KeyNotFound", key |-> key, val |-> NoText, value |-> NoValue]

val_not_found(key) == [kind |-> "ValNotFound", key |-> key, val |-> NoText, value |-> NoValue]

val_parse_failed(key, val) == [kind |-> "ValParseFailed", key |-> key, val |-> val, value |-> NoValue]

\* The VarError source is NotUnicode: the only VarError left after NotPresent.
env_lookup_failed(key) == [kind |-> "EnvLookupFailed", key |-> key, val |-> NoText, value |-> NoValue]

IsErr(r) == r.kind \in {"KeyNotFound", "ValNotFound", "ValParseFailed", "EnvLookupFailed"}

(***************************************************************************)
(* Characters.                                                             *)
(***************************************************************************)
AsciiLower == <<"a","b","c","d","e","f","g","h","i","j","k","l","m",
                "n","o","p","q","r","s","t","u","v","w","x","y","z">>

AsciiUpper == <<"A","B","C","D","E","F","G","H","I","J","K","L","M",
                "N","O","P","Q","R","S","T","U","V","W","X","Y","Z">>

Digits == <<"0","1","2","3","4","5","6","7","8","9">>

IndexIn(seq, c) == IF \E i \in DOMAIN seq : seq[i] = c
                   THEN CHOOSE i \in DOMAIN seq : seq[i] = c
                   ELSE 0

\* u8::to_ascii_uppercase per character: a..z to A..Z, everything else kept.
to_ascii_uppercase_char(c) ==
    IF IndexIn(AsciiLower, c) # 0 THEN AsciiUpper[IndexIn(AsciiLower, c)] ELSE c

to_ascii_uppercase(s) == [i \in DOMAIN s |-> to_ascii_uppercase_char(s[i])]

IsDigit(c) == IndexIn(Digits, c) # 0

DigitVal(c) == IndexIn(Digits, c) - 1

(***************************************************************************)
(* FromStr and Display of the value types (impl ConfValue, lib.rs 27-35).  *)
(***************************************************************************)
Types == {"String", "u8", "i64", "u64"}

IsSigned(ty) == ty = "i64"

Zero == <<"0">>

\* Decimal digits without leading zeros.
StripZeros(d) ==
    IF \A i \in DOMAIN d : d[i] = "0" THEN Zero
    ELSE LET first == CHOOSE i \in DOMAIN d :
                          d[i] # "0" /\ \A j \in 1..(i - 1) : d[j] = "0"
         IN  SubSeq(d, first, Len(d))

\* a > b for canonical magnitudes.
MagGreater(a, b) ==
    \/ Len(a) > Len(b)
    \/ /\ Len(a) = Len(b)
       /\ \E i \in DOMAIN a : /\ DigitVal(a[i]) > DigitVal(b[i])
                              /\ \A j \in 1..(i - 1) : a[j] = b[j]

\* The largest magnitude the type holds on each side of zero.
MaxMag(ty, neg) ==
    CASE ty = "u8" -> <<"2","5","5">>
      [] ty = "u64" -> <<"1","8","4","4","6","7","4","4","0","7","3","7","0","9","5","5","1","6","1","5">>
      [] ty = "i64" /\ ~neg -> <<"9","2","2","3","3","7","2","0","3","6","8","5","4","7","7","5","8","0","7">>
      [] OTHER -> <<"9","2","2","3","3","7","2","0","3","6","8","5","4","7","7","5","8","0","8">>

ParseErr == [ok |-> FALSE, value |-> NoValue]

ParseOk(v) == [ok |-> TRUE, value |-> v]

\* core::num::from_str_radix(src, 10): empty and a lone sign are errors, a
\* leading '+' is accepted by every integer type and '-' only by signed ones,
\* every other character must be a digit, and the value must fit the type.
IntFromStr(ty, src) ==
    IF src = <<>> THEN ParseErr
    ELSE IF src \in {<<"+">>, <<"-">>} THEN ParseErr
    ELSE LET neg    == src[1] = "-" /\ IsSigned(ty)
             digits == IF src[1] = "+" \/ neg THEN Tail(src) ELSE src
         IN  IF \E i \in DOMAIN digits : ~IsDigit(digits[i]) THEN ParseErr
             ELSE LET mag == StripZeros(digits)
                  IN  IF MagGreater(mag, MaxMag(ty, neg)) THEN ParseErr
                      ELSE ParseOk(IntValue(ty, neg /\ mag # Zero, mag))

\* <V as FromStr>::from_str: String never fails and keeps the text.
FromStr(ty, src) ==
    IF ty = "String" THEN ParseOk(StrValue(src)) ELSE IntFromStr(ty, src)

\* <V as Display>::to_string, as the typed builders render their default.
to_string(v) ==
    IF v.ty = "String" THEN v.body
    ELSE IF v.neg THEN <<"-">> \o v.body ELSE v.body

(***************************************************************************)
(* The process environment and EnvSource (lib.rs 48-82).                   *)
(***************************************************************************)
\* An OsString value of a variable: valid text, or not valid unicode.
OsText(s) == [unicode |-> TRUE, text |-> s]

OsNotUnicode == [unicode |-> FALSE, text |-> NoText]

set_var(e, k, v) == [n \in DOMAIN e \cup {k} |-> IF n = k THEN v ELSE e[n]]

remove_var(e, k) == [n \in DOMAIN e \ {k} |-> e[n]]

\* std::env::var: Ok(text), Err(NotPresent) or Err(NotUnicode).
env_var(e, k) ==
    IF k \notin DOMAIN e THEN "NotPresent"
    ELSE IF e[k].unicode THEN "Ok" ELSE "NotUnicode"

DEFAULT_NAME == <<"v","c","f","g">>

\* Mutant of EnvSource_new: the prefix keeps the name's letter case.
EnvSource_new_keep_case(name) == [prefix |-> name]

EnvSource_new(name) == [prefix |-> to_ascii_uppercase(name)]

env_key(source, key) == source.prefix \o <<"_">> \o to_ascii_uppercase(key)

EnvSource_get(source, e, key) ==
    LET ek == env_key(source, key)
    IN  CASE env_var(e, ek) = "Ok" ->
                 LET v == e[ek].text
                     p == FromStr("String", v)
                 IN  IF p.ok THEN OkSome(p.value) ELSE val_parse_failed(ek, v)
          [] env_var(e, ek) = "NotPresent" -> OkNone
          [] OTHER -> env_lookup_failed(ek)

(***************************************************************************)
(* ConfEntry and Conf (lib.rs 84-258).                                     *)
(***************************************************************************)
ConfEntry_new(ty, name) == [name |-> name, val_type |-> ty, default |-> None]

with_default(entry, default) == [entry EXCEPT !.default = Some(default)]

Conf_new(name) ==
    [name |-> name, source |-> EnvSource_new(name), options |-> <<>>]

Conf_default == Conf_new(DEFAULT_NAME)

\* Mutant of Conf_entry: an entry already under the name is kept.
Conf_entry_first_wins(c, entry) ==
    IF entry.name \in DOMAIN c.options THEN c
    ELSE [c EXCEPT !.options =
             [k \in DOMAIN c.options \cup {entry.name} |->
                 IF k = entry.name THEN entry ELSE c.options[k]]]

\* Mutant of Conf_entry: the map key is the upper-cased name.
Conf_entry_upper_key(c, entry) ==
    [c EXCEPT !.options =
        [k \in DOMAIN c.options \cup {to_ascii_uppercase(entry.name)} |->
            IF k = to_ascii_uppercase(entry.name) THEN entry ELSE c.options[k]]]

\* BTreeMap::insert(entry.name.clone(), Box::new(entry)).
Conf_entry(c, entry) ==
    [c EXCEPT !.options =
        [k \in DOMAIN c.options \cup {entry.name} |->
            IF k = entry.name THEN entry ELSE c.options[k]]]

\* Conf::string: default is Option<&str>, stored as given.
Conf_string(c, name, default) ==
    LET entry == ConfEntry_new("String", name)
    IN  IF default.some THEN Conf_entry(c, with_default(entry, default.val))
        ELSE Conf_entry(c, entry)

\* Conf::byte, Conf::int and Conf::uint: default is Option of a typed value,
\* stored as d.to_string().
Conf_byte(c, name, default) ==
    LET entry == ConfEntry_new("u8", name)
    IN  IF default.some THEN Conf_entry(c, with_default(entry, to_string(default.val)))
        ELSE Conf_entry(c, entry)

Conf_int(c, name, default) ==
    LET entry == ConfEntry_new("i64", name)
    IN  IF default.some THEN Conf_entry(c, with_default(entry, to_string(default.val)))
        ELSE Conf_entry(c, entry)

Conf_uint(c, name, default) ==
    LET entry == ConfEntry_new("u64", name)
    IN  IF default.some THEN Conf_entry(c, with_default(entry, to_string(default.val)))
        ELSE Conf_entry(c, entry)

\* option.as_any().downcast_ref::<ConfEntry<V>>(): Some exactly when the
\* stored entry was built for V.
downcast_ref(option, ty) == option.val_type = ty

\* Mutant of or_else: the default is preferred to the source's value.
or_else_default_first(srcres, default) ==
    IF default.some THEN default
    ELSE IF srcres.kind = "OkSome" THEN Some(srcres.value.body) ELSE None

\* Option<String>::or_else on the source's answer.
or_else(srcres, default) ==
    IF srcres.kind = "OkSome" THEN Some(srcres.value.body) ELSE default

\* Mutant of Conf_get: a key with no entry is looked up in the source anyway.
Conf_get_unregistered_from_source(c, e, ty, key) ==
    IF key \notin DOMAIN c.options
    THEN LET got == EnvSource_get(c.source, e, key)
         IN  IF got.kind = "OkSome" /\ FromStr(ty, got.value.body).ok
             THEN OkSome(FromStr(ty, got.value.body).value)
             ELSE key_not_found(key)
    ELSE LET option == c.options[key]
         IN  IF ~downcast_ref(option, ty) THEN val_parse_failed(key, NoText)
             ELSE LET got == EnvSource_get(c.source, e, option.name)
                  IN  IF IsErr(got) THEN got
                      ELSE LET chosen == or_else(got, option.default)
                           IN  IF ~chosen.some THEN OkNone
                               ELSE LET p == FromStr(ty, chosen.val)
                                    IN  IF p.ok THEN OkSome(p.value)
                                        ELSE val_parse_failed(key, chosen.val)

\* Mutant of Conf_get: the source is queried before the entry is downcast.
Conf_get_source_before_downcast(c, e, ty, key) ==
    IF key \notin DOMAIN c.options THEN key_not_found(key)
    ELSE LET option == c.options[key]
             got    == EnvSource_get(c.source, e, option.name)
         IN  IF IsErr(got) THEN got
             ELSE IF ~downcast_ref(option, ty) THEN val_parse_failed(key, NoText)
             ELSE LET chosen == or_else(got, option.default)
                  IN  IF ~chosen.some THEN OkNone
                      ELSE LET p == FromStr(ty, chosen.val)
                           IN  IF p.ok THEN OkSome(p.value)
                               ELSE val_parse_failed(key, chosen.val)

\* Mutant of Conf_get: a source value that does not parse falls back to the
\* default.
Conf_get_retry_default(c, e, ty, key) ==
    IF key \notin DOMAIN c.options THEN key_not_found(key)
    ELSE LET option == c.options[key]
         IN  IF ~downcast_ref(option, ty) THEN val_parse_failed(key, NoText)
             ELSE LET got == EnvSource_get(c.source, e, option.name)
                  IN  IF IsErr(got) THEN got
                      ELSE LET first  == or_else(got, option.default)
                               chosen == IF first.some /\ ~FromStr(ty, first.val).ok
                                         THEN option.default ELSE first
                           IN  IF ~chosen.some THEN OkNone
                               ELSE LET p == FromStr(ty, chosen.val)
                                    IN  IF p.ok THEN OkSome(p.value)
                                        ELSE val_parse_failed(key, chosen.val)

Conf_get(c, e, ty, key) ==
    IF key \notin DOMAIN c.options THEN key_not_found(key)
    ELSE LET option == c.options[key]
         IN  IF ~downcast_ref(option, ty) THEN val_parse_failed(key, NoText)
             ELSE LET got == EnvSource_get(c.source, e, option.name)
                  IN  IF IsErr(got) THEN got
                      ELSE LET chosen == or_else(got, option.default)
                           IN  IF ~chosen.some THEN OkNone
                               ELSE LET p == FromStr(ty, chosen.val)
                                    IN  IF p.ok THEN OkSome(p.value)
                                        ELSE val_parse_failed(key, chosen.val)

\* Result<Option<V>>::transpose: Ok(None) is None, Ok(Some(v)) is Some(Ok(v))
\* and Err(e) is Some(Err(e)).
transpose(r) ==
    IF r.kind = "OkNone" THEN [some |-> FALSE, res |-> r]
    ELSE IF r.kind = "OkSome" THEN [some |-> TRUE, res |-> Ok(r.value)]
    ELSE [some |-> TRUE, res |-> r]

\* Option::ok_or_else(|| val_not_found(key)) followed by `?`.
ok_or_else(o, key) == IF o.some THEN o.res ELSE val_not_found(key)

\* Mutant of Conf_require: every failure of get is reported as ValNotFound.
Conf_require_any_error_not_found(c, e, ty, key) ==
    LET g == Conf_get(c, e, ty, key)
    IN  IF g.kind = "OkSome" THEN Ok(g.value) ELSE val_not_found(key)

Conf_require(c, e, ty, key) == ok_or_else(transpose(Conf_get(c, e, ty, key)), key)

(***************************************************************************)
(* Inputs of the registry specification.                                   *)
(***************************************************************************)
\* The most environment variables set at once.
MaxEnvVars == 1

\* Names the builders register: they differ only in letter case.
Names == {<<"n">>, <<"N">>}

\* A key no builder call ever uses.
UnregKey == <<"k">>

Keys == Names \cup {UnregKey}

VCFG_N == <<"V","C","F","G","_","N">>

VCFG_K == <<"V","C","F","G","_","K">>

EnvVals == {OsText(<<"4">>), OsText(<<"x">>), OsNotUnicode}

\* The writes made to the environment: the variable the registered names
\* translate to takes every value, the unregistered key's variable one.
EnvWrites == ({VCFG_N} \X EnvVals) \cup {<<VCFG_K, OsText(<<"4">>)>>}

StrDefaults == {None, Some(<<"h","i">>)}

ByteDefaults == {None, Some(IntValue("u8", FALSE, <<"2","5","5">>))}

IntDefaults == {None, Some(IntValue("i64", TRUE, <<"4","2">>))}

UintDefaults == {None, Some(IntValue("u64", FALSE, <<"3">>))}

\* Defaults handed to ConfEntry::with_default directly: any text, here one
\* that is no u8.
RawDefaults == {<<"2","5","6">>}

\* The value types Conf::entry is called with.
RawTypes == {"u8", "u64"}

NoResult == [kind |-> "none", key |-> NoText, val |-> NoText, value |-> NoValue]

\* What a builder call displaced (BTreeMap::insert's return value, which
\* Conf::entry drops): nothing, or an entry with or without a default, of the
\* same value type or another.
NoPrior == [present |-> FALSE, had_default |-> FALSE, same_type |-> FALSE]

Prior(c, entry) ==
    IF entry.name \notin DOMAIN c.options THEN NoPrior
    ELSE [present |-> TRUE,
          had_default |-> c.options[entry.name].default.some,
          same_type |-> c.options[entry.name].val_type = entry.val_type]

\* The record of a call: again says that a read repeats the read before it
\* (same accessor, key and type) with nothing done in between.
Called(op, key, ty, res) ==
    [op |-> op, key |-> key, ty |-> ty, res |-> res, again |-> FALSE, prior |-> NoPrior]

Built(op, entry) ==
    [op |-> op, key |-> entry.name, ty |-> entry.val_type, res |-> NoResult,
     again |-> FALSE, prior |-> Prior(conf, entry)]

Read(op, key, ty, res) ==
    [op |-> op, key |-> key, ty |-> ty, res |-> res,
     again |-> last.op = op /\ last.key = key /\ last.ty = ty, prior |-> NoPrior]

Reads == {"get", "require"}

Builders == {"entry", "string", "byte", "int", "uint"}

TestNames == {"get_err_key_not_found", "get_str_default", "get_str_env",
              "get_str_multi", "get_int_multi", "require_str_multi",
              "require_int_default"}

TestsIdle ==
    /\ tpc = [t \in TestNames |-> 0]
    /\ tval = [t \in TestNames |-> NoResult]
    /\ failed = {}
    /\ overlapped = FALSE

(***************************************************************************)
(* Spec: one registry of the default namespace, the process environment,   *)
(* and any interleaving of builder calls, environment writes and reads.    *)
(***************************************************************************)
Init ==
    /\ conf = Conf_default
    /\ env = <<>>
    /\ last = Called("new", NoText, "none", NoResult)
    /\ registered = <<>>
    /\ TestsIdle

\* What every builder step does to the history.
Record(entry) ==
    registered' = [k \in DOMAIN registered \cup {entry.name} |->
                      IF k = entry.name THEN entry ELSE registered[k]]

\* conf = conf.entry(ConfEntry::<V>::new(name).with_default(d))
CallEntry ==
    \E name \in Names, ty \in RawTypes, d \in RawDefaults :
        /\ conf' = Conf_entry(conf, with_default(ConfEntry_new(ty, name), d))
        /\ Record([name |-> name, val_type |-> ty, default |-> Some(d)])
        /\ last' = Built("entry", ConfEntry_new(ty, name))
        /\ UNCHANGED <<env, testvars>>

CallString ==
    \E name \in Names, d \in StrDefaults :
        /\ conf' = Conf_string(conf, name, d)
        /\ Record([name |-> name, val_type |-> "String", default |-> d])
        /\ last' = Built("string", ConfEntry_new("String", name))
        /\ UNCHANGED <<env, testvars>>

CallByte ==
    \E name \in Names, d \in ByteDefaults :
        /\ conf' = Conf_byte(conf, name, d)
        /\ Record([name |-> name, val_type |-> "u8",
                   default |-> IF d.some THEN Some(to_string(d.val)) ELSE None])
        /\ last' = Built("byte", ConfEntry_new("u8", name))
        /\ UNCHANGED <<env, testvars>>

CallInt ==
    \E name \in Names, d \in IntDefaults :
        /\ conf' = Conf_int(conf, name, d)
        /\ Record([name |-> name, val_type |-> "i64",
                   default |-> IF d.some THEN Some(to_string(d.val)) ELSE None])
        /\ last' = Built("int", ConfEntry_new("i64", name))
        /\ UNCHANGED <<env, testvars>>

CallUint ==
    \E name \in Names, d \in UintDefaults :
        /\ conf' = Conf_uint(conf, name, d)
        /\ Record([name |-> name, val_type |-> "u64",
                   default |-> IF d.some THEN Some(to_string(d.val)) ELSE None])
        /\ last' = Built("uint", ConfEntry_new("u64", name))
        /\ UNCHANGED <<env, testvars>>

\* std::env::set_var, by this process or any other writer of its environment.
SetVar ==
    \E w \in EnvWrites :
        /\ Cardinality(DOMAIN env \cup {w[1]}) <= MaxEnvVars
        /\ env' = set_var(env, w[1], w[2])
        /\ last' = Called("set_var", w[1], "none", NoResult)
        /\ UNCHANGED <<conf, registered, testvars>>

RemoveVar ==
    \E k \in DOMAIN env :
        /\ env' = remove_var(env, k)
        /\ last' = Called("remove_var", k, "none", NoResult)
        /\ UNCHANGED <<conf, registered, testvars>>

\* Mutant of CallGet: the resolved text is kept as the entry's default.
CallGet_memo ==
    \E key \in Keys, ty \in Types :
        LET got == IF key \in DOMAIN conf.options
                   THEN EnvSource_get(conf.source, env, key) ELSE OkNone
        IN  /\ last' = Read("get", key, ty, Conf_get(conf, env, ty, key))
            /\ conf' = IF got.kind = "OkSome"
                       THEN [conf EXCEPT !.options[key].default = Some(got.value.body)]
                       ELSE conf
            /\ UNCHANGED <<env, registered, testvars>>

\* conf.get::<V>(key)
CallGet ==
    \E key \in Keys, ty \in Types :
        /\ last' = Read("get", key, ty, Conf_get(conf, env, ty, key))
        /\ UNCHANGED <<conf, env, registered, testvars>>

\* conf.require::<V>(key)
CallRequire ==
    \E key \in Keys, ty \in Types :
        /\ last' = Read("require", key, ty, Conf_require(conf, env, ty, key))
        /\ UNCHANGED <<conf, env, registered, testvars>>

Next ==
    \/ CallEntry \/ CallString \/ CallByte \/ CallInt \/ CallUint
    \/ SetVar \/ RemoveVar
    \/ CallGet \/ CallRequire

Spec == Init /\ [][Next]_vars

(***************************************************************************)
(* Properties of the registry, stated on the call recorded in last against *)
(* the registry and the environment it ran on (a builder call or an        *)
(* environment write replaces the record, so a recorded read is a read of  *)
(* the current state).                                                     *)
(***************************************************************************)
\* The variable the naming convention gives a key of this registry.
VarOf(key) == to_ascii_uppercase(conf.name) \o <<"_">> \o to_ascii_uppercase(key)

SourceAbsent(key) == VarOf(key) \notin DOMAIN env

SourceHas(key) == VarOf(key) \in DOMAIN env /\ env[VarOf(key)].unicode

SourceText(key) == env[VarOf(key)].text

Registered(key) == key \in DOMAIN conf.options

\* The entry under the key was built for the requested type.
Matching(key, ty) == Registered(key) /\ conf.options[key].val_type = ty

\* The one string precedence picks: the source's value, else the default.
Chosen(key) ==
    IF SourceHas(key) THEN Some(SourceText(key)) ELSE conf.options[key].default

\* C1: a get at the entry's type, when the source lookup does not fail, returns
\* Ok(Some(parse(s))) for the one string s picked by precedence (the source's
\* value if there is one, whatever the default is, otherwise the default) when
\* s parses, and Ok(None) exactly when there is neither a source value nor a
\* default.
C1_SourceThenDefault ==
    (last.op = "get" /\ Matching(last.key, last.ty)
        /\ (SourceAbsent(last.key) \/ SourceHas(last.key))) =>
        LET s == Chosen(last.key)
            p == FromStr(last.ty, s.val)
        IN  /\ (SourceHas(last.key) => s = Some(SourceText(last.key)))
            /\ (s.some /\ p.ok => last.res = OkSome(p.value))
            /\ (last.res = OkNone <=>
                    (SourceAbsent(last.key) /\ ~conf.options[last.key].default.some))

\* A u8 entry with default "255" read while the variable holds "4": 4.
C1_Witness ==
    /\ last.op = "get" /\ last.ty = "u8" /\ Matching(last.key, "u8")
    /\ conf.options[last.key].default = Some(<<"2","5","5">>)
    /\ SourceHas(last.key) /\ SourceText(last.key) = <<"4">>
    /\ last.res = OkSome(IntValue("u8", FALSE, <<"4">>))

\* C2: a get on a key that is not in the option map returns
\* Err(KeyNotFound{key}) with the requested key, for every type and every
\* state of the environment.
C2_KeyNotFound ==
    (last.op = "get" /\ ~Registered(last.key)) =>
        (last.res.kind = "KeyNotFound" /\ last.res.key = last.key)

\* The key's variable is set and the registry holds other keys.
C2_Witness ==
    /\ last.op = "get" /\ last.key = UnregKey
    /\ SourceHas(UnregKey)
    /\ DOMAIN conf.options # {}
    /\ last.res = key_not_found(UnregKey)

\* What require makes of what get returns on the same state.
RequireFollowsGet ==
    LET g == Conf_get(conf, env, last.ty, last.key)
    IN  /\ (g.kind = "OkSome" => last.res = Ok(g.value))
        /\ (g.kind = "OkNone" => last.res = val_not_found(last.key))
        /\ (IsErr(g) => last.res = g)

\* C3 as stated: require is determined by get (Some(v) gives Ok(v), None gives
\* ValNotFound, an error passes through unchanged), and require on a
\* registered key with no source value and no default always yields
\* ValNotFound.
C3_AsStated ==
    last.op = "require" =>
        /\ RequireFollowsGet
        /\ (Registered(last.key) /\ SourceAbsent(last.key)
               /\ ~conf.options[last.key].default.some)
            => last.res.kind = "ValNotFound"

\* C3 amended: as stated, except that ValNotFound on a registered key with no
\* source value and no default is promised only for a require at the entry's
\* type (at another type get's ValParseFailed{key, ""} passes through).
C3_RequireFollowsGet ==
    last.op = "require" =>
        /\ RequireFollowsGet
        /\ (Matching(last.key, last.ty) /\ SourceAbsent(last.key)
               /\ ~conf.options[last.key].default.some)
            => last.res = val_not_found(last.key)
        /\ (Registered(last.key) /\ ~Matching(last.key, last.ty))
            => last.res = val_parse_failed(last.key, NoText)

C3_Witness ==
    /\ last.op = "require" /\ Matching(last.key, last.ty)
    /\ SourceAbsent(last.key) /\ ~conf.options[last.key].default.some
    /\ last.res = val_not_found(last.key)

\* C4: a get at a type other than the entry's returns
\* Err(ValParseFailed{key, val: ""}) whatever the source holds for the key
\* (nothing, a value that would parse, a failing lookup) and whatever the
\* default is.
C4_TypeMismatch ==
    (last.op = "get" /\ Registered(last.key) /\ ~Matching(last.key, last.ty)) =>
        (/\ last.res.kind = "ValParseFailed"
         /\ last.res.key = last.key
         /\ last.res.val = <<>>)

\* The mismatch is reported although the source lookup would fail.
C4_Witness ==
    /\ last.op = "get" /\ Registered(last.key) /\ ~Matching(last.key, last.ty)
    /\ ~SourceAbsent(last.key) /\ ~SourceHas(last.key)
    /\ conf.options[last.key].default.some
    /\ last.res = val_parse_failed(last.key, <<>>)

\* C5: the option map holds, for each name, exactly the entry of the latest
\* builder call on that name (type and default), and nothing under any other
\* name; it never holds more options than distinct names were registered.
C5_LastWriteWins ==
    /\ DOMAIN conf.options = DOMAIN registered
    /\ \A k \in DOMAIN registered :
           /\ conf.options[k].val_type = registered[k].val_type
           /\ conf.options[k].default = registered[k].default
    /\ Cardinality(DOMAIN conf.options) <= Cardinality(DOMAIN registered)
    /\ (last.op \in Builders =>
           /\ Registered(last.key)
           /\ conf.options[last.key].val_type = last.ty)

\* string(name, None) replaced an entry of another type that had a default,
\* with a second name in the map.
C5_Witness ==
    /\ last.op = "string"
    /\ last.prior.present /\ last.prior.had_default /\ ~last.prior.same_type
    /\ conf.options[last.key] = ConfEntry_new("String", last.key)
    /\ Cardinality(DOMAIN conf.options) = 2

\* C6: a get or require changes neither the registry nor the environment, and
\* a read that repeats the read before it with nothing done in between
\* returns the same result.
C6_ReadsKeepNoState ==
    [][/\ (last'.op \in Reads => (conf' = conf /\ env' = env))
       /\ (last'.again => last'.res = last.res)
       /\ (last'.op \in Reads /\ Matching(last'.key, last'.ty)
              /\ SourceHas(last'.key) /\ FromStr(last'.ty, SourceText(last'.key)).ok)
           => last'.res.value = FromStr(last'.ty, SourceText(last'.key)).value]_vars

C6_Witness ==
    /\ last.op = "require" /\ last.again
    /\ SourceHas(last.key)
    /\ last.res.kind = "Ok"

\* C8: a get at the entry's type returns Err(ValParseFailed{key, val}) exactly
\* when the one string picked by precedence does not parse as V; key is the
\* accessor's key and val that string. There is no second attempt with the
\* default.
C8_ParseFailure ==
    (last.op = "get" /\ Matching(last.key, last.ty)) =>
        LET s   == Chosen(last.key)
            bad == /\ (SourceAbsent(last.key) \/ SourceHas(last.key))
                   /\ s.some
                   /\ ~FromStr(last.ty, s.val).ok
        IN  /\ (last.res.kind = "ValParseFailed" <=> bad)
            /\ (bad => (last.res.key = last.key /\ last.res.val = s.val))

\* The source's "x" is reported although the default would parse.
C8_Witness ==
    /\ last.op = "get" /\ Matching(last.key, last.ty)
    /\ SourceHas(last.key) /\ SourceText(last.key) = <<"x">>
    /\ conf.options[last.key].default.some
    /\ FromStr(last.ty, conf.options[last.key].default.val).ok
    /\ last.res = val_parse_failed(last.key, <<"x">>)

\* C9: every key of the option map maps to an entry of that very name, so the
\* name handed to the source and the key of a ValParseFailed are the key the
\* caller gave; the keys are exactly the names registered, letter case kept.
C9_KeyIsEntryName ==
    /\ \A k \in DOMAIN conf.options : conf.options[k].name = k
    /\ DOMAIN conf.options = DOMAIN registered
    /\ (last.op \in Reads /\ last.res.kind = "ValParseFailed") => last.res.key = last.key

\* "n" and "N" are two entries although both translate to one variable.
C9_Witness ==
    /\ Registered(<<"n">>) /\ Registered(<<"N">>)
    /\ conf.options[<<"n">>].val_type # conf.options[<<"N">>].val_type
    /\ env_key(conf.source, <<"n">>) = env_key(conf.source, <<"N">>)
    /\ last.op = "get" /\ last.key = <<"N">> /\ last.res.kind = "OkSome"

(***************************************************************************)
(* SpecSource: EnvSource::new(n) for several namespaces and EnvSource::get *)
(* on an environment that also holds variables of other spellings.         *)
(***************************************************************************)
\* The letters e-acute and E-acute: one character each, not ASCII.
e_acute == "U+00E9"

E_acute == "U+00C9"

\* str::to_uppercase on the characters used here: unlike to_ascii_uppercase
\* it also maps the non-ASCII lower-case letter.
to_uppercase_char(c) == IF c = e_acute THEN E_acute ELSE to_ascii_uppercase_char(c)

to_uppercase(s) == [i \in DOMAIN s |-> to_uppercase_char(s[i])]

Namespaces == {DEFAULT_NAME, <<e_acute>>}

SourceKeys == {<<"n">>, <<"N">>, <<e_acute>>}

\* Every spelling of a namespace or key: as written, ASCII upper-case, and
\* upper-case.
Spellings(S) == S \cup {to_ascii_uppercase(x) : x \in S} \cup {to_uppercase(x) : x \in S}

SourceEnvNames ==
    {p \o <<"_">> \o k : p \in Spellings(Namespaces), k \in Spellings(SourceKeys)}

InitSource ==
    /\ \E n \in Namespaces : conf = Conf_new(n)
    /\ env = <<>>
    /\ last = Called("new", NoText, "none", NoResult)
    /\ registered = <<>>
    /\ TestsIdle

SourceSetVar ==
    \E k \in SourceEnvNames, v \in EnvVals :
        /\ Cardinality(DOMAIN env \cup {k}) <= MaxEnvVars
        /\ env' = set_var(env, k, v)
        /\ last' = Called("set_var", k, "none", NoResult)
        /\ UNCHANGED <<conf, registered, testvars>>

\* conf.source.get(key)
SourceGet ==
    \E key \in SourceKeys :
        /\ last' = Read("source_get", key, "String", EnvSource_get(conf.source, env, key))
        /\ UNCHANGED <<conf, env, registered, testvars>>

NextSource == SourceSetVar \/ RemoveVar \/ SourceGet

SpecSource == InitSource /\ [][NextSource]_vars

\* What EnvSource::get returns if it reads the variable called var.
ReadsVariable(var) ==
    /\ (var \notin DOMAIN env => last.res = OkNone)
    /\ (var \in DOMAIN env /\ env[var].unicode => last.res = OkSome(StrValue(env[var].text)))
    /\ (IsErr(last.res) => var \in DOMAIN env)

MaxThreads == 2

T_test == <<"t","e","s","t">>

T_testy == <<"t","e","s","t","y">>

T_greeting == <<"g","r","e","e","t","i","n","g">>

T_name == <<"n","a","m","e">>

T_max_byte == <<"m","a","x","_","b","y","t","e">>

T_a_number == <<"a","_","n","u","m","b","e","r">>

T_another_number == <<"a","n","o","t","h","e","r","_","n","u","m","b","e","r">>

T_count == <<"c","o","u","n","t">>

VCFG_NAME == <<"V","C","F","G","_","N","A","M","E">>

VCFG_GREETING == <<"V","C","F","G","_","G","R","E","E","T","I","N","G">>

VCFG_MAX_BYTE == <<"V","C","F","G","_","M","A","X","_","B","Y","T","E">>

\* clean_env: remove_var(format!("{}_{}", DEFAULT_NAME, n.to_ascii_uppercase()))
\* for each n of vars.
CleanVars ==
    {DEFAULT_NAME \o <<"_">> \o to_ascii_uppercase(n) :
        n \in {T_test, T_testy, T_greeting, T_name, T_max_byte, T_a_number, T_another_number}}

clean_env(e) == [n \in DOMAIN e \ CleanVars |-> e[n]]

\* One step of a test. A read carries the assertion the test makes on its
\* value (unwrap, unwrap_err, assert_eq!): the value is local to the test, and
\* no environment access of the test lies between the read and its assertion.
Clean == [op |-> "clean_env", var |-> NoText, text |-> NoText,
          conf |-> Conf_default, key |-> NoText, ty |-> "none", expect |-> NoResult]

Set(var, text) == [op |-> "set_var", var |-> var, text |-> text,
                   conf |-> Conf_default, key |-> NoText, ty |-> "none", expect |-> NoResult]

GetEq(c, ty, key, expect) == [op |-> "get", var |-> NoText, text |-> NoText,
                              conf |-> c, key |-> key, ty |-> ty, expect |-> expect]

RequireEq(c, ty, key, expect) == [op |-> "require", var |-> NoText, text |-> NoText,
                                  conf |-> c, key |-> key, ty |-> ty, expect |-> expect]

Hello == <<"H","e","l","l","o">>

Greeting_name == Conf_string(Conf_string(Conf_default, T_greeting, Some(Hello)), T_name, None)

Numbers ==
    Conf_uint(Conf_int(Conf_byte(Conf_default,
                                 T_max_byte, Some(IntValue("u8", FALSE, <<"2","5","5">>))),
                       T_a_number, Some(IntValue("i64", TRUE, <<"4","2">>))),
              T_another_number, None)

Test_get_err_key_not_found ==
    LET c == Conf_string(Conf_default, T_test, Some(<<"h","i">>))
    IN  << Clean,
           GetEq(Conf_default, "String", T_test, key_not_found(T_test)),
           GetEq(c, "String", T_test, OkSome(StrValue(<<"h","i">>))),
           GetEq(c, "String", T_testy, key_not_found(T_testy)) >>

Test_get_str_default ==
    LET c == Conf_string(Conf_default, T_name, Some(<<"w","o","r","l","d">>))
    IN  << Clean,
           GetEq(c, "String", T_name, OkSome(StrValue(<<"w","o","r","l","d">>))) >>

Test_get_str_env ==
    LET c == Conf_string(Conf_default, T_name, Some(<<"w","o","r","l","d">>))
    IN  << Clean,
           Set(VCFG_NAME, <<"x","e","l","a">>),
           GetEq(c, "String", T_name, OkSome(StrValue(<<"x","e","l","a">>))) >>

Test_get_str_multi ==
    << Clean,
       Set(VCFG_NAME, <<"w","o","r","l","d">>),
       GetEq(Greeting_name, "String", T_greeting, OkSome(StrValue(Hello))),
       GetEq(Greeting_name, "String", T_name, OkSome(StrValue(<<"w","o","r","l","d">>))) >>

Test_get_int_multi ==
    << Clean,
       GetEq(Numbers, "i64", T_a_number, OkSome(IntValue("i64", TRUE, <<"4","2">>))),
       GetEq(Numbers, "u8", T_max_byte, OkSome(IntValue("u8", FALSE, <<"2","5","5">>))),
       GetEq(Numbers, "u64", T_another_number, OkNone),
       Set(VCFG_MAX_BYTE, <<"4">>),
       GetEq(Numbers, "u8", T_max_byte, OkSome(IntValue("u8", FALSE, <<"4">>))) >>

\* conf_greet() = "Hello, world!" and then "Hail, xela!": the two values that
\* format to each.
Test_require_str_multi ==
    << Clean,
       Set(VCFG_NAME, <<"w","o","r","l","d">>),
       RequireEq(Greeting_name, "String", T_greeting, Ok(StrValue(Hello))),
       RequireEq(Greeting_name, "String", T_name, Ok(StrValue(<<"w","o","r","l","d">>))),
       Set(VCFG_NAME, <<"x","e","l","a">>),
       Set(VCFG_GREETING, <<"H","a","i","l">>),
       RequireEq(Greeting_name, "String", T_greeting, Ok(StrValue(<<"H","a","i","l">>))),
       RequireEq(Greeting_name, "String", T_name, Ok(StrValue(<<"x","e","l","a">>))) >>

Test_require_int_default ==
    LET c == Conf_uint(Conf_default, T_count, Some(IntValue("u64", FALSE, <<"3">>)))
    IN  << Clean,
           RequireEq(c, "u64", T_count, Ok(IntValue("u64", FALSE, <<"3">>))) >>

Program(t) ==
    CASE t = "get_err_key_not_found" -> Test_get_err_key_not_found
      [] t = "get_str_default" -> Test_get_str_default
      [] t = "get_str_env" -> Test_get_str_env
      [] t = "get_str_multi" -> Test_get_str_multi
      [] t = "get_int_multi" -> Test_get_int_multi
      [] t = "require_str_multi" -> Test_require_str_multi
      [] OTHER -> Test_require_int_default

\* tpc[t] is 0 before the test starts, i while its i-th step is next, and
\* past the program once it has returned or panicked.
Done(t) == Len(Program(t)) + 1

Running(t) == tpc[t] \in 1..Len(Program(t))

InitTests ==
    /\ conf = Conf_default
    /\ env = <<>>
    /\ last = Called("new", NoText, "none", NoResult)
    /\ registered = <<>>
    /\ TestsIdle

\* The harness starts a test that has not run, in any order.
StartTest(t) ==
    /\ tpc[t] = 0
    /\ Cardinality({u \in TestNames : Running(u)}) < MaxThreads
    /\ tpc' = [tpc EXCEPT ![t] = 1]
    /\ overlapped' = (overlapped \/ \E u \in TestNames : Running(u))
    /\ UNCHANGED <<regvars, env, tval, failed>>

TestCleanEnv(t) ==
    /\ Running(t)
    /\ Program(t)[tpc[t]].op = "clean_env"
    /\ env' = clean_env(env)
    /\ tpc' = [tpc EXCEPT ![t] = @ + 1]
    /\ UNCHANGED <<regvars, tval, failed, overlapped>>

TestSetVar(t) ==
    /\ Running(t)
    /\ Program(t)[tpc[t]].op = "set_var"
    /\ env' = set_var(env, Program(t)[tpc[t]].var, OsText(Program(t)[tpc[t]].text))
    /\ tpc' = [tpc EXCEPT ![t] = @ + 1]
    /\ UNCHANGED <<regvars, tval, failed, overlapped>>

\* A read and its assertion: the test goes on if it holds and panics if not.
Checked(t, step, res) ==
    /\ tval' = [tval EXCEPT ![t] = res]
    /\ IF res = step.expect
       THEN tpc' = [tpc EXCEPT ![t] = @ + 1] /\ failed' = failed
       ELSE tpc' = [tpc EXCEPT ![t] = Done(t)] /\ failed' = failed \cup {t}
    /\ UNCHANGED <<regvars, env, overlapped>>

TestGet(t) ==
    /\ Running(t)
    /\ Program(t)[tpc[t]].op = "get"
    /\ LET step == Program(t)[tpc[t]]
       IN  Checked(t, step, Conf_get(step.conf, env, step.ty, step.key))

TestRequire(t) ==
    /\ Running(t)
    /\ Program(t)[tpc[t]].op = "require"
    /\ LET step == Program(t)[tpc[t]]
       IN  Checked(t, step, Conf_require(step.conf, env, step.ty, step.key))

NextTests ==
    \E t \in TestNames :
        StartTest(t) \/ TestCleanEnv(t) \/ TestSetVar(t) \/ TestGet(t) \/ TestRequire(t)

SpecTests == InitTests /\ [][NextTests]_vars

\* C10, its first half: run one after another in one process, in any order,
\* no test of the suite fails an assertion (each begins with clean_env()).
C10_TestsPassInAnyOrder == ~overlapped => failed = {}

\* C10, its second half as well: nor does any test fail when the tests run
\* interleaved as threads of one process.
TestsPassInterleaved == failed = {}

====
